---- MODULE Spec2Model ----
(***************************************************************************)
(* Limit-order book of inagib21/Orderbook: the two price-indexed sides,    *)
(* the by-ID map, the per-price LevelData index, the matching loop and the *)
(* public operations AddOrder / CancelOrder / ModifyOrder, and the mutex,   *)
(* the pruner thread and the shutdown of src/OrderBook.h.                  *)
(*                                                                         *)
(* The matching loop, CanMatch, AddOrder, CancelOrder and the modify       *)
(* operation are translated from src/OrderBook.cpp.  The LevelData index,  *)
(* CanFullyFill and the Market admission are only declared in              *)
(* src/OrderBook.h; their bodies follow sections 4.1, 4.2 and 4.5 of the   *)
(* design document.  The same holds for the mutex, the pruner and the      *)
(* destructor, which follow sections 4.6 and 5.                            *)
(***************************************************************************)
EXTENDS Integers, Sequences, FiniteSets, TLC

(***************************************************************************)
(* Bounds of the model.                                                    *)
(***************************************************************************)
\* prices submitted by callers are the ticks 1..MaxPrice
MaxPrice == 2
\* quantities submitted by callers are 0..MaxQuantity
MaxQuantity == 2
\* number of public operations in one run of Spec
MaxOps == 3
\* number of public operations in one run of SpecFillOrKill
MaxOpsFillOrKill == 4
\* number of public operations of the foreground thread in one run of SpecPruner
MaxOpsPruner == 3
\* number of public operations of the foreground thread in one run of SpecShutdown
MaxOpsShutdown == 2
\* Quantity is std::uint32_t (src/OrderBook.cpp:35); the model keeps the
\* wrap-around of the LevelData counters but narrows them to QuantityBits bits
QuantityBits == 5

QuantityModulus == 2 ^ QuantityBits

Prices == 1 .. MaxPrice
Quantities == 0 .. MaxQuantity
\* the quantities of SpecFillOrKill: no empty order
PositiveQuantities == 1 .. (MaxQuantity + 1)
\* callers number their orders 1, 2, ...: one new id per operation at most
OrderIds == 1 .. (IF MaxOps < MaxOpsFillOrKill THEN MaxOpsFillOrKill ELSE MaxOps)
\* the quantities of SpecPruner
SomeQuantities == 1 .. MaxQuantity

\* enum class Side
Sides == {"Buy", "Sell"}

\* enum class OrderType, as enumerated by the design document
OrderTypes == {"GoodTillCancel", "FillAndKill", "FillOrKill", "GoodForDay", "Market"}

\* Constants::InvalidPrice, the price of a Market order built by Order(id, side, quantity)
InvalidPrice == 0

(***************************************************************************)
(* Order, OrderModify, TradeInfo, Trade.                                   *)
(***************************************************************************)
\* Order::Order(orderType, orderId, side, price, quantity)
Order(orderType, orderId, side, price, quantity) ==
    [orderType |-> orderType, orderId |-> orderId, side |-> side, price |-> price,
     initialQuantity |-> quantity, remainingQuantity |-> quantity]

\* Order::IsFilled
IsFilled(order) == order.remainingQuantity = 0

\* Order::Fill for quantity <= remaining; the overfill branch throws and leaves
\* the order as it was
Fill(order, quantity) ==
    IF quantity > order.remainingQuantity
    THEN order
    ELSE [order EXCEPT !.remainingQuantity = order.remainingQuantity - quantity]

\* mutant: the type is converted but the price is not assigned
ToGoodTillCancelUnpriced(order, price) ==
    IF order.orderType # "Market"
    THEN order
    ELSE [order EXCEPT !.orderType = "GoodTillCancel"]

\* Order::ToGoodTillCancel
ToGoodTillCancel(order, price) ==
    IF order.orderType # "Market"
    THEN order
    ELSE [order EXCEPT !.price = price, !.orderType = "GoodTillCancel"]

\* OrderModify::OrderModify
OrderModify(orderId, side, price, quantity) ==
    [orderId |-> orderId, side |-> side, price |-> price, quantity |-> quantity]

\* mutant: the new order is GoodTillCancel whatever the type handed in
ToOrderPointerGoodTillCancel(modify, type) ==
    Order("GoodTillCancel", modify.orderId, modify.side, modify.price, modify.quantity)

\* OrderModify::ToOrderPointer
ToOrderPointer(modify, type) ==
    Order(type, modify.orderId, modify.side, modify.price, modify.quantity)

\* struct TradeInfo
TradeInfo(orderId, price, quantity) ==
    [orderId |-> orderId, price |-> price, quantity |-> quantity]

\* mutant: both legs record the ask's price
TradeAtAskPrice(bidTrade, askTrade) ==
    [bidTrade |-> [bidTrade EXCEPT !.price = askTrade.price], askTrade |-> askTrade]

\* class Trade
Trade(bidTrade, askTrade) == [bidTrade |-> bidTrade, askTrade |-> askTrade]

(***************************************************************************)
(* Helpers on std::map<Price, OrderPointers> and std::unordered_map: a map *)
(* is a function whose domain is its set of keys.                          *)
(***************************************************************************)
EmptyMap == [k \in {} |-> 0]

\* map::erase(key)
MapErase(m, k) == [x \in (DOMAIN m) \ {k} |-> m[x]]

\* map[key] = value (insert or assign)
MapPut(m, k, v) == [x \in (DOMAIN m) \cup {k} |-> IF x = k THEN v ELSE m[x]]

SetMax(S) == CHOOSE x \in S : \A y \in S : y <= x
SetMin(S) == CHOOSE x \in S : \A y \in S : x <= y

\* bids_.begin()->first: std::greater<Price>, the highest bid
BestBid(bids) == SetMax(DOMAIN bids)

\* asks_.begin()->first: std::less<Price>, the lowest ask
BestAsk(asks) == SetMin(DOMAIN asks)

\* list::pop_front
PopFront(q) == SubSeq(q, 2, Len(q))

\* mutant: the head of the list is erased, whatever node the entry points to
EraseFront(q, orderId) == SubSeq(q, 2, Len(q))

\* list::erase(location_): the list node of the order the entry points to
EraseId(q, orderId) == SelectSeq(q, LAMBDA o : o.orderId # orderId)

\* the Order an OrderEntry points to: the element of the queue at the entry's
\* side and price that carries the id
SideMap(bids, asks, side) == IF side = "Buy" THEN bids ELSE asks

(***************************************************************************)
(* State.                                                                  *)
(***************************************************************************)
VARIABLES
    bids_,     \* std::map<Price, OrderPointers, std::greater<Price>>
    asks_,     \* std::map<Price, OrderPointers, std::less<Price>>
    orders_,   \* std::unordered_map<OrderId, OrderEntry>: id -> (side, price) of the order and its list node
    data_,     \* std::unordered_map<Price, LevelData>
    crashed,   \* a read through a dangling reference ended the process
    trades,    \* the Trades returned by the last operation
    lastOp,    \* the last operation called and its argument
    filled,    \* per OrderId, the quantity of all trades ever emitted naming it
    filledNow, \* per OrderId, the quantity of the trades naming it since it was last admitted
    admittedAt,\* per OrderId, the number of the operation that last admitted it
    nextId,    \* the next OrderId the callers have not used yet
    opCount,   \* number of operations called so far
    ordersMutex_,       \* std::mutex: "free", or the thread that owns it
    shutdown_,          \* std::atomic<bool>
    foreground,         \* position of the foreground thread
    ordersPruneThread_, \* position of the pruner thread
    orderIds,           \* the pruner's local list of collected ids
    closeIds            \* the ids resting as GoodForDay when the last session closed

\* the mutex, the shutdown flag and the two threads
threads == <<ordersMutex_, shutdown_, foreground, ordersPruneThread_, orderIds, closeIds>>

vars == <<bids_, asks_, orders_, data_, crashed, trades, lastOp, filled, filledNow, admittedAt,
          nextId, opCount, threads>>

book == <<bids_, asks_, orders_, data_>>

(***************************************************************************)
(* LevelData index (declared in src/OrderBook.h, bodies from section 4.5). *)
(***************************************************************************)
\* struct LevelData { Quantity quantity_{ }; Quantity count_{ }; }
LevelData(quantity, count) == [quantity |-> quantity, count |-> count]

\* data_[price]: the entry, value-initialised when the price has none
LevelAt(data, price) == IF price \in DOMAIN data THEN data[price] ELSE LevelData(0, 0)

\* UpdateLevelData: Add: count += 1, quantity += qty; Remove: count -= 1,
\* quantity -= qty, erase at count 0; Match: quantity -= qty.  Both fields are
\* unsigned (Quantity), so they wrap.
UpdateLevelData(data, price, quantity, action) ==
    LET d == LevelAt(data, price)
        count == CASE action = "Add" -> (d.count + 1) % QuantityModulus
                   [] action = "Remove" -> (d.count + QuantityModulus - 1) % QuantityModulus
                   [] OTHER -> d.count
        qty == IF action = "Add"
               THEN (d.quantity + quantity) % QuantityModulus
               ELSE (d.quantity + QuantityModulus - quantity) % QuantityModulus
    IN  IF action = "Remove" /\ count = 0
        THEN MapErase(data, price)
        ELSE MapPut(data, price, LevelData(qty, count))

\* OnOrderAdded: LevelData Add with the order's initial quantity
OnOrderAdded(data, order) ==
    UpdateLevelData(data, order.price, order.initialQuantity, "Add")

\* OnOrderCancelled: LevelData Remove with the order's remaining quantity
OnOrderCancelled(data, order) ==
    UpdateLevelData(data, order.price, order.remainingQuantity, "Remove")

\* OnOrderMatched: Remove for a leg now at zero remaining, Match for a partial fill
OnOrderMatched(data, price, quantity, isFullyFilled) ==
    UpdateLevelData(data, price, quantity, IF isFullyFilled THEN "Remove" ELSE "Match")

\* matching step 7: a per-price queue that became empty is erased from levels too
EraseLevel(data, price, queueEmpty) ==
    IF queueEmpty THEN MapErase(data, price) ELSE data

(***************************************************************************)
(* Admission tests.                                                        *)
(***************************************************************************)
\* mutant: the buy comparison is turned round
CanMatchTurned(bids, asks, side, price) ==
    IF side = "Buy"
    THEN IF DOMAIN asks = {} THEN FALSE ELSE price <= BestAsk(asks)
    ELSE IF DOMAIN bids = {} THEN FALSE ELSE price <= BestBid(bids)

\* Orderbook::CanMatch
CanMatch(bids, asks, side, price) ==
    IF side = "Buy"
    THEN IF DOMAIN asks = {} THEN FALSE ELSE price >= BestAsk(asks)
    ELSE IF DOMAIN bids = {} THEN FALSE ELSE price <= BestBid(bids)

\* the opposite side's prices the limit reaches (asks <= price for a buy,
\* bids >= price for a sell)
ReachablePrices(bids, asks, side, price) ==
    IF side = "Buy"
    THEN {p \in DOMAIN asks : p <= price}
    ELSE {p \in DOMAIN bids : p >= price}

\* first price of a set in the opposite side's priority order
FirstPrice(side, S) == IF side = "Buy" THEN SetMin(S) ELSE SetMax(S)

\* CanFullyFill: walk the reachable opposite prices in priority order and
\* accumulate levels[p].quantity; true as soon as the sum reaches the quantity
RECURSIVE FullyFillWalk(_, _, _, _, _)
FullyFillWalk(data, side, todo, sum, needed) ==
    IF todo = {}
    THEN FALSE
    ELSE LET p == FirstPrice(side, todo)
             s == (sum + LevelAt(data, p).quantity) % QuantityModulus
         IN  IF s >= needed
             THEN TRUE
             ELSE FullyFillWalk(data, side, todo \ {p}, s, needed)

CanFullyFill(bids, asks, data, side, price, quantity) ==
    FullyFillWalk(data, side, ReachablePrices(bids, asks, side, price), 0, quantity)

\* sum of the remaining quantities of a queue
RECURSIVE QueueQuantity(_)
QueueQuantity(q) ==
    IF q = <<>> THEN 0 ELSE Head(q).remainingQuantity + QueueQuantity(Tail(q))

\* Market admission: walk the opposite side in priority order summing the
\* resting quantities until they reach the order's quantity; the last price
\* reached, or InvalidPrice when the side cannot absorb the order
RECURSIVE MarketWalk(_, _, _, _, _)
MarketWalk(opposite, side, todo, sum, needed) ==
    IF todo = {}
    THEN InvalidPrice
    ELSE LET p == FirstPrice(side, todo)
             s == sum + QueueQuantity(opposite[p])
         IN  IF s >= needed
             THEN p
             ELSE MarketWalk(opposite, side, todo \ {p}, s, needed)

MarketPrice(bids, asks, side, quantity) ==
    LET opposite == IF side = "Buy" THEN asks ELSE bids
    IN  MarketWalk(opposite, side, DOMAIN opposite, 0, quantity)

(***************************************************************************)
(* The operations work on a record of the members they touch:              *)
(*   bids, asks, orders, data  the four containers                         *)
(*   trades    the Trades being built                                      *)
(*   admitted  the ids inserted by this call                               *)
(*   uaf       the call read through a dangling reference                  *)
(***************************************************************************)
BookState(bids, asks, orders, data) ==
    [bids |-> bids, asks |-> asks, orders |-> orders, data |-> data,
     trades |-> <<>>, admitted |-> {}, uaf |-> FALSE]

\* struct OrderEntry { order_, location_ }: the shared Order lives in the queue
\* of its side and price; the entry designates that queue and the node of the id
OrderEntry(order) == [side |-> order.side, price |-> order.price]

\* *entry.order_
OrderOf(bids, asks, entry, orderId) ==
    LET q == SideMap(bids, asks, entry.side)[entry.price]
    IN  q[CHOOSE i \in 1 .. Len(q) : q[i].orderId = orderId]

\* mutant: the level stays when the cancel empties its queue
CancelOrderKeepsLevel(st, orderId) ==
    IF orderId \notin DOMAIN st.orders
    THEN st
    ELSE LET entry == st.orders[orderId]
             order == OrderOf(st.bids, st.asks, entry, orderId)
             price == entry.price
             orders == EraseId(SideMap(st.bids, st.asks, entry.side)[price], orderId)
             level == MapPut(SideMap(st.bids, st.asks, entry.side), price, orders)
         IN  [st EXCEPT !.orders = MapErase(st.orders, orderId),
                        !.asks = IF entry.side = "Sell" THEN level ELSE st.asks,
                        !.bids = IF entry.side = "Sell" THEN st.bids ELSE level,
                        !.data = OnOrderCancelled(st.data, order),
                        !.uaf = TRUE]

\* Orderbook::CancelOrder.  `const auto& [order, iterator] = orders_.at(orderId)`
\* binds references into the map node that `orders_.erase(orderId)` frees on the
\* next line; every later use of order and iterator reads freed memory.
CancelOrder(st, orderId) ==
    IF orderId \notin DOMAIN st.orders
    THEN st
    ELSE LET entry == st.orders[orderId]
             order == OrderOf(st.bids, st.asks, entry, orderId)
             price == entry.price
             orders == EraseId(SideMap(st.bids, st.asks, entry.side)[price], orderId)
             level == IF orders = <<>>
                      THEN MapErase(SideMap(st.bids, st.asks, entry.side), price)
                      ELSE MapPut(SideMap(st.bids, st.asks, entry.side), price, orders)
         IN  [st EXCEPT !.orders = MapErase(st.orders, orderId),
                        !.asks = IF entry.side = "Sell" THEN level ELSE st.asks,
                        !.bids = IF entry.side = "Sell" THEN st.bids ELSE level,
                        !.data = OnOrderCancelled(st.data, order),
                        !.uaf = TRUE]

\* mutant: std::max instead of std::min
MatchQuantityMax(bid, ask) ==
    IF bid.remainingQuantity < ask.remainingQuantity
    THEN ask.remainingQuantity
    ELSE bid.remainingQuantity

\* mutant: the traded quantity is what the bid has left
MatchQuantityBid(bid, ask) == bid.remainingQuantity

\* mutant: the loop trades one unit at a time
MatchQuantityOne(bid, ask) ==
    IF bid.remainingQuantity = 0 \/ ask.remainingQuantity = 0 THEN 0 ELSE 1

\* Quantity quantity = std::min(bid->GetRemainingQuantity(), ask->GetRemainingQuantity())
MatchQuantity(bid, ask) ==
    IF bid.remainingQuantity < ask.remainingQuantity
    THEN bid.remainingQuantity
    ELSE ask.remainingQuantity

\* if (order->IsFilled()) { queue.pop_front(); ... } on the head of a queue
PopIfFilled(queue, order) ==
    IF IsFilled(order) THEN PopFront(queue) ELSE <<order>> \o Tail(queue)

\* mutant: the filled order is popped but stays in the by-ID map
KeepFilled(orders, order) == orders

\* if (order->IsFilled()) { ...; orders_.erase(order->GetOrderId()); }
EraseIfFilled(orders, order) ==
    IF IsFilled(order) THEN MapErase(orders, order.orderId) ELSE orders

\* if (queue.empty()) side.erase(price);
EraseIfEmpty(side, price, queue) ==
    IF queue = <<>> THEN MapErase(side, price) ELSE MapPut(side, price, queue)

\* one pass of the inner while loop of MatchOrders.  bid and ask are references
\* to the heads of the two lists: after pop_front they dangle, and the erase by
\* id and the Trade are built through them.
MatchStep(st, bidPrice, askPrice) ==
    LET bid0 == Head(st.bids[bidPrice])
        ask0 == Head(st.asks[askPrice])
        quantity == MatchQuantity(bid0, ask0)
        bid == Fill(bid0, quantity)
        ask == Fill(ask0, quantity)
        bids == PopIfFilled(st.bids[bidPrice], bid)
        asks == PopIfFilled(st.asks[askPrice], ask)
        matched == OnOrderMatched(OnOrderMatched(st.data, bid.price, quantity, IsFilled(bid)),
                                  ask.price, quantity, IsFilled(ask))
    IN  [st EXCEPT
            !.bids = EraseIfEmpty(st.bids, bidPrice, bids),
            !.asks = EraseIfEmpty(st.asks, askPrice, asks),
            !.orders = EraseIfFilled(EraseIfFilled(st.orders, bid), ask),
            !.data = EraseLevel(EraseLevel(matched, bidPrice, bids = <<>>), askPrice, asks = <<>>),
            !.trades = Append(st.trades,
                              Trade(TradeInfo(bid.orderId, bid.price, quantity),
                                    TradeInfo(ask.orderId, ask.price, quantity))),
            !.uaf = st.uaf \/ IsFilled(bid) \/ IsFilled(ask)]

\* while (!bids.empty() && !asks.empty()): bids and asks are references to the
\* two levels; a level erased by the pass before is read through the dangling
\* reference, where the freed list is the empty list it was when erased
RECURSIVE MatchLevel(_, _, _)
MatchLevel(st, bidPrice, askPrice) ==
    IF bidPrice \notin DOMAIN st.bids \/ askPrice \notin DOMAIN st.asks
    THEN st
    ELSE MatchLevel(MatchStep(st, bidPrice, askPrice), bidPrice, askPrice)

\* mutant: the loop also stops when the best prices are equal
NoMatchOrEqual(bidPrice, askPrice) == bidPrice <= askPrice

\* if (bidPrice < askPrice) break;
NoMatch(bidPrice, askPrice) == bidPrice < askPrice

\* while (true) of MatchOrders
RECURSIVE MatchLoop(_)
MatchLoop(st) ==
    IF DOMAIN st.bids = {} \/ DOMAIN st.asks = {}
    THEN st
    ELSE IF NoMatch(BestBid(st.bids), BestAsk(st.asks))
         THEN st
         ELSE MatchLoop(MatchLevel(st, BestBid(st.bids), BestAsk(st.asks)))

\* mutant: no sweep after the loop
NoSweep(st, side) == st

\* the two blocks after the loop: a FillAndKill order at the head of the best
\* level of a side is cancelled
SweepFillAndKill(st, side) ==
    LET m == SideMap(st.bids, st.asks, side)
    IN  IF DOMAIN m = {}
        THEN st
        ELSE LET order == Head(m[IF side = "Buy" THEN BestBid(m) ELSE BestAsk(m)])
             IN  IF order.orderType = "FillAndKill"
                 THEN CancelOrder(st, order.orderId)
                 ELSE st

\* Orderbook::MatchOrders
MatchOrders(st) ==
    SweepFillAndKill(SweepFillAndKill(MatchLoop(st), "Buy"), "Sell")

\* mutant: push_front instead of push_back
InsertOrderFront(st, order) ==
    LET m == SideMap(st.bids, st.asks, order.side)
        orders == <<order>> \o (IF order.price \in DOMAIN m THEN m[order.price] ELSE <<>>)
    IN  [st EXCEPT !.bids = IF order.side = "Buy" THEN MapPut(m, order.price, orders) ELSE st.bids,
                   !.asks = IF order.side = "Buy" THEN st.asks ELSE MapPut(m, order.price, orders),
                   !.orders = MapPut(st.orders, order.orderId, OrderEntry(order)),
                   !.data = OnOrderAdded(st.data, order),
                   !.admitted = st.admitted \cup {order.orderId}]

\* AddOrder, from `OrderPointers::iterator iterator` to `orders_.insert`:
\* push_back on the queue of the side and price, entry in the by-ID map
InsertOrder(st, order) ==
    LET m == SideMap(st.bids, st.asks, order.side)
        orders == (IF order.price \in DOMAIN m THEN m[order.price] ELSE <<>>) \o <<order>>
    IN  [st EXCEPT !.bids = IF order.side = "Buy" THEN MapPut(m, order.price, orders) ELSE st.bids,
                   !.asks = IF order.side = "Buy" THEN st.asks ELSE MapPut(m, order.price, orders),
                   !.orders = MapPut(st.orders, order.orderId, OrderEntry(order)),
                   !.data = OnOrderAdded(st.data, order),
                   !.admitted = st.admitted \cup {order.orderId}]

\* the Market branch of AddOrder: reprice to the boundary price and convert
Repriced(st, order) ==
    IF order.orderType = "Market"
    THEN ToGoodTillCancel(order, MarketPrice(st.bids, st.asks, order.side, order.initialQuantity))
    ELSE order

\* mutant: no test of the by-ID map
RejectedFillAndKill(st, order) ==
    /\ order.orderType = "FillAndKill"
    /\ ~CanMatch(st.bids, st.asks, order.side, order.price)

\* the two early returns of AddOrder: the id is in the by-ID map; a
\* FillAndKill order cannot match
Rejected(st, order) ==
    \/ order.orderId \in DOMAIN st.orders
    \/ /\ order.orderType = "FillAndKill"
       /\ ~CanMatch(st.bids, st.asks, order.side, order.price)

\* the admission tests of section 4.2 the early sketch lacks: a Market order
\* the opposite side cannot absorb, a FillOrKill order that cannot fully fill
RejectedUnfilled(st, order) ==
    \/ /\ order.orderType = "Market"
       /\ MarketPrice(st.bids, st.asks, order.side, order.initialQuantity) = InvalidPrice
    \/ /\ order.orderType = "FillOrKill"
       /\ ~CanFullyFill(st.bids, st.asks, st.data, order.side, order.price, order.initialQuantity)

\* Orderbook::AddOrder
AddOrder(st, order) ==
    IF Rejected(st, order) \/ (order.orderId \notin DOMAIN st.orders /\ RejectedUnfilled(st, order))
    THEN [st EXCEPT !.trades = <<>>]
    ELSE MatchOrders(InsertOrder(st, Repriced(st, order)))

\* mutant: a modification that keeps side and price replaces the order where it
\* stands in its queue
ModifyOrderInPlace(st, modify) ==
    IF modify.orderId \notin DOMAIN st.orders
    THEN [st EXCEPT !.trades = <<>>]
    ELSE LET entry == st.orders[modify.orderId]
             existingOrder == OrderOf(st.bids, st.asks, entry, modify.orderId)
             order == ToOrderPointer(modify, existingOrder.orderType)
             m == SideMap(st.bids, st.asks, entry.side)
             orders == [i \in 1 .. Len(m[entry.price]) |->
                           IF m[entry.price][i].orderId = modify.orderId
                           THEN order
                           ELSE m[entry.price][i]]
         IN  IF modify.side = entry.side /\ modify.price = entry.price
             THEN [st EXCEPT
                     !.bids = IF entry.side = "Buy" THEN MapPut(m, entry.price, orders) ELSE st.bids,
                     !.asks = IF entry.side = "Buy" THEN st.asks ELSE MapPut(m, entry.price, orders),
                     !.data = OnOrderAdded(OnOrderCancelled(st.data, existingOrder), order),
                     !.admitted = {modify.orderId}]
             ELSE AddOrder(CancelOrder(st, modify.orderId), order)

\* mutant: a modification naming an absent id is admitted as a new order
ModifyOrderUpsert(st, modify) ==
    IF modify.orderId \notin DOMAIN st.orders
    THEN AddOrder(st, ToOrderPointer(modify, "GoodTillCancel"))
    ELSE LET existingOrder == OrderOf(st.bids, st.asks, st.orders[modify.orderId], modify.orderId)
         IN  AddOrder(CancelOrder(st, modify.orderId),
                      ToOrderPointer(modify, existingOrder.orderType))

\* Orderbook::MatchOrder(OrderModify), ModifyOrder in src/OrderBook.h.
\* existingOrder is a reference into the map node CancelOrder erases; the type
\* is read through it after the cancel.
ModifyOrder(st, modify) ==
    IF modify.orderId \notin DOMAIN st.orders
    THEN [st EXCEPT !.trades = <<>>]
    ELSE LET existingOrder == OrderOf(st.bids, st.asks, st.orders[modify.orderId], modify.orderId)
         IN  AddOrder(CancelOrder(st, modify.orderId),
                      ToOrderPointer(modify, existingOrder.orderType))

\* Orderbook::sSize, Size in src/OrderBook.h
Size(orders) == Cardinality(DOMAIN orders)

(***************************************************************************)
(* The state machine: one action per public operation.                     *)
(***************************************************************************)
NoOp == [op |-> "None", orderType |-> "None", orderId |-> 0, side |-> "None",
         price |-> 0, quantity |-> 0, admitted |-> FALSE]

Init ==
    /\ bids_ = EmptyMap
    /\ asks_ = EmptyMap
    /\ orders_ = EmptyMap
    /\ data_ = EmptyMap
    /\ crashed = FALSE
    /\ trades = <<>>
    /\ lastOp = NoOp
    /\ filled = [id \in OrderIds |-> 0]
    /\ filledNow = [id \in OrderIds |-> 0]
    /\ admittedAt = [id \in OrderIds |-> 0]
    /\ nextId = 1
    /\ opCount = 0
    /\ ordersMutex_ = "free"
    /\ shutdown_ = FALSE
    /\ foreground = "idle"
    /\ ordersPruneThread_ = "starting"
    /\ orderIds = {}
    /\ closeIds = {}

\* the members before the call
Current == BookState(bids_, asks_, orders_, data_)

\* quantity of the trades of a list that name an id
RECURSIVE TradedQuantity(_, _)
TradedQuantity(trs, id) ==
    IF trs = <<>>
    THEN 0
    ELSE (IF Head(trs).bidTrade.orderId = id THEN Head(trs).bidTrade.quantity ELSE 0)
         + (IF Head(trs).askTrade.orderId = id THEN Head(trs).askTrade.quantity ELSE 0)
         + TradedQuantity(Tail(trs), id)

\* the call returns: the members and the returned trades become visible
Return(st, op) ==
    /\ bids_' = st.bids
    /\ asks_' = st.asks
    /\ orders_' = st.orders
    /\ data_' = st.data
    /\ crashed' = FALSE
    /\ trades' = st.trades
    /\ lastOp' = [op EXCEPT !.admitted = op.orderId \in st.admitted]
    /\ filled' = [id \in OrderIds |-> filled[id] + TradedQuantity(st.trades, id)]
    /\ filledNow' = [id \in OrderIds |->
                        (IF id \in st.admitted THEN 0 ELSE filledNow[id])
                        + TradedQuantity(st.trades, id)]
    /\ admittedAt' = [id \in OrderIds |->
                        IF id \in st.admitted THEN opCount + 1 ELSE admittedAt[id]]

\* the read of freed memory ends the process inside the call: nothing returns
Abort(op) ==
    /\ crashed' = TRUE
    /\ lastOp' = op
    /\ trades' = <<>>
    /\ UNCHANGED <<bids_, asks_, orders_, data_, filled, filledNow, admittedAt>>

\* a call that read through a dangling reference either found the freed memory
\* as it was left or was stopped there
Outcome(st, op) ==
    \/ Return(st, op)
    \/ st.uaf /\ Abort(op)

\* the orders a caller may submit: a Market order carries no price
OrderInputs(types, quantities, id) ==
    {Order(t, id, s, p, q) : t \in types \ {"Market"}, s \in Sides, p \in Prices, q \in quantities}
    \cup {Order(t, id, s, InvalidPrice, q) : t \in types \cap {"Market"}, s \in Sides, q \in quantities}

\* ids are unique for the lifetime of the process: a caller submits the next
\* unused id, or by mistake one that is resting
CallAddOrder(types, quantities, maxOps) ==
    /\ ~crashed
    /\ opCount < maxOps
    /\ \E id \in (DOMAIN orders_) \cup {nextId} :
       \E order \in OrderInputs(types, quantities, id) :
          /\ Outcome(AddOrder(Current, order),
                     [op |-> "AddOrder", orderType |-> order.orderType, orderId |-> id,
                      side |-> order.side, price |-> order.price,
                      quantity |-> order.initialQuantity, admitted |-> FALSE])
          /\ nextId' = IF id = nextId THEN nextId + 1 ELSE nextId
    /\ opCount' = opCount + 1

CallCancelOrder(maxOps) ==
    /\ ~crashed
    /\ opCount < maxOps
    /\ \E id \in 1 .. nextId :
          Outcome(CancelOrder(Current, id),
                  [NoOp EXCEPT !.op = "CancelOrder", !.orderId = id])
    /\ opCount' = opCount + 1
    /\ UNCHANGED nextId

CallModifyOrder(quantities, maxOps) ==
    /\ ~crashed
    /\ opCount < maxOps
    /\ \E id \in 1 .. nextId, s \in Sides, p \in Prices, q \in quantities :
          Outcome(ModifyOrder(Current, OrderModify(id, s, p, q)),
                  [op |-> "ModifyOrder", orderType |-> "None", orderId |-> id,
                   side |-> s, price |-> p, quantity |-> q, admitted |-> FALSE])
    /\ opCount' = opCount + 1
    /\ UNCHANGED nextId

\* every order type, MaxOps operations, one thread: the calls as
\* src/OrderBook.cpp has them, without the mutex and the pruner
Next ==
    /\ \/ CallAddOrder(OrderTypes, Quantities, MaxOps)
       \/ CallCancelOrder(MaxOps)
       \/ CallModifyOrder(Quantities, MaxOps)
    /\ UNCHANGED threads

Spec == Init /\ [][Next]_vars

\* longer runs of GoodTillCancel and FillOrKill orders of positive quantity
NextFillOrKill ==
    /\ \/ CallAddOrder({"GoodTillCancel", "FillOrKill"}, PositiveQuantities, MaxOpsFillOrKill)
       \/ CallCancelOrder(MaxOpsFillOrKill)
       \/ CallModifyOrder(PositiveQuantities, MaxOpsFillOrKill)
    /\ UNCHANGED threads

SpecFillOrKill == Init /\ [][NextFillOrKill]_vars

(***************************************************************************)
(* Properties.                                                             *)
(***************************************************************************)
\* the orders resting on a side, and in the book
RestingOn(m) == UNION {{m[p][i] : i \in 1 .. Len(m[p])} : p \in DOMAIN m}
Resting == RestingOn(bids_) \cup RestingOn(asks_)

\* number of list nodes in all queues of a side
RECURSIVE QueuedCount(_, _)
QueuedCount(m, todo) ==
    IF todo = {}
    THEN 0
    ELSE LET p == SetMin(todo) IN Len(m[p]) + QueuedCount(m, todo \ {p})

\* the last operation returned
Returned == ~crashed /\ lastOp.op # "None"

\* C1: after every public operation returns the book is not crossed: when both
\* sides are non-empty the highest bid is strictly below the lowest ask.
C1_NotCrossed ==
    ~crashed =>
        (DOMAIN bids_ # {} /\ DOMAIN asks_ # {} => BestBid(bids_) < BestAsk(asks_))

\* an operation matched and returned with orders resting on both sides
C1_Witness ==
    /\ Returned
    /\ trades # <<>>
    /\ DOMAIN bids_ # {}
    /\ DOMAIN asks_ # {}

\* the leg of a trade that belongs to the resting side, for an incoming order of a side
RestingLeg(trade, side) == IF side = "Buy" THEN trade.askTrade ELSE trade.bidTrade

\* the leg of a trade that belongs to the incoming order
IncomingLeg(trade, side) == IF side = "Buy" THEN trade.bidTrade ELSE trade.askTrade

\* price-time priority on the side opposite to an incoming order of a side:
\* better price, or the same price and admitted earlier
Before(o1, o2, side) ==
    \/ IF side = "Buy" THEN o1.price < o2.price ELSE o1.price > o2.price
    \/ o1.price = o2.price /\ admittedAt[o1.orderId] < admittedAt[o2.orderId]

\* C2 on one step: the trades an AddOrder returns, read against the book and
\* the admission order before the call
C2_Step ==
    (lastOp'.op = "AddOrder" /\ ~crashed' /\ trades' # <<>>) =>
        LET side == lastOp'.side
            n == Len(trades')
            leg == [i \in 1 .. n |-> RestingLeg(trades'[i], side)]
            opposite == RestingOn(IF side = "Buy" THEN asks_ ELSE bids_)
        IN  /\ \A i \in 1 .. n : \E o \in opposite : o.orderId = leg[i].orderId
            /\ \A i, j \in 1 .. n :
                  i < j => IF side = "Buy"
                           THEN leg[i].price <= leg[j].price
                           ELSE leg[i].price >= leg[j].price
            /\ \A i, j \in 1 .. n :
                  (i < j /\ leg[i].price = leg[j].price /\ leg[i].orderId # leg[j].orderId)
                     => admittedAt[leg[i].orderId] < admittedAt[leg[j].orderId]
            /\ \A i \in 1 .. n : \A o, r \in opposite :
                  (r.orderId = leg[i].orderId /\ Before(o, r, side))
                     => /\ \E k \in 1 .. (i - 1) : leg[k].orderId = o.orderId
                        /\ TradedQuantity(SubSeq(trades', 1, i - 1), o.orderId)
                              = o.remainingQuantity

\* C2: within one AddOrder that crosses, the trades follow the price-time
\* priority of the resting side: resting prices never go from worse to better,
\* at one price the resting orders trade in admission order, and no resting
\* order trades while one with priority over it still rests.
C2_PriceTimePriority == [][C2_Step]_vars

\* an AddOrder returned trades against two different resting orders
C2_Witness ==
    /\ Returned
    /\ lastOp.op = "AddOrder"
    /\ Len(trades) >= 2
    /\ RestingLeg(trades[1], lastOp.side).orderId # RestingLeg(trades[2], lastOp.side).orderId

\* the claim of C3 as stated: for every resting id, the quantities of all
\* trades ever emitted that name it add up to initial minus remaining, and the
\* two legs of every trade carry the same quantity.
C3_AllTradesEver ==
    ~crashed =>
        /\ \A o \in Resting : filled[o.orderId] = o.initialQuantity - o.remainingQuantity
        /\ \A i \in 1 .. Len(trades) : trades[i].bidTrade.quantity = trades[i].askTrade.quantity

\* C3 (amended): for every resting order, the quantities of the trades that
\* name its id and were emitted since that order was admitted (by AddOrder, or
\* by ModifyOrder as the replacement order) add up to initial minus remaining;
\* and the two legs of every trade carry the same quantity.
C3_TradesSinceAdmission ==
    ~crashed =>
        /\ \A o \in Resting : filledNow[o.orderId] = o.initialQuantity - o.remainingQuantity
        /\ \A i \in 1 .. Len(trades) : trades[i].bidTrade.quantity = trades[i].askTrade.quantity

\* an order replaced by ModifyOrder rests under an id that earlier trades name
C3_Witness ==
    /\ Returned
    /\ lastOp.op = "ModifyOrder"
    /\ \E o \in Resting :
          /\ o.orderId = lastOp.orderId
          /\ filled[o.orderId] > filledNow[o.orderId]
          /\ o.remainingQuantity > 0

\* C4 as stated: after every public operation returns, every resting order
\* has 0 < remaining <= initial, whatever quantities the callers submit.
C4_RemainingPositive ==
    ~crashed =>
        \A o \in Resting :
            0 < o.remainingQuantity /\ o.remainingQuantity <= o.initialQuantity

\* the queue of a side at a price, empty when the side has no such level
QueueAt(m, p) == IF p \in DOMAIN m THEN m[p] ELSE <<>>

\* C5: after every public operation returns, the by-ID map and the queues
\* describe the same orders: every id of the map occurs exactly once in the
\* queue of its side and price, every queued order has its id in the map with
\* that side and price, and Size() is the number of queued orders.
C5_ByIdMatchesQueues ==
    ~crashed =>
        /\ \A id \in DOMAIN orders_ :
              LET q == QueueAt(SideMap(bids_, asks_, orders_[id].side), orders_[id].price)
              IN  Cardinality({i \in 1 .. Len(q) : q[i].orderId = id}) = 1
        /\ \A side \in Sides :
              \A p \in DOMAIN SideMap(bids_, asks_, side) :
                 \A i \in 1 .. Len(SideMap(bids_, asks_, side)[p]) :
                    LET o == SideMap(bids_, asks_, side)[p][i]
                    IN  /\ o.orderId \in DOMAIN orders_
                        /\ orders_[o.orderId] = [side |-> side, price |-> p]
                        /\ o.side = side
                        /\ o.price = p
        /\ Size(orders_) = QueuedCount(bids_, DOMAIN bids_) + QueuedCount(asks_, DOMAIN asks_)

\* an operation filled and removed an order while two others rest
C5_Witness ==
    /\ Returned
    /\ trades # <<>>
    /\ \E i \in 1 .. Len(trades) : trades[i].bidTrade.orderId \notin DOMAIN orders_
                                   \/ trades[i].askTrade.orderId \notin DOMAIN orders_
    /\ Size(orders_) >= 2

\* C6 as stated: after every public operation returns, every price with a
\* non-empty queue on some side has a LevelData entry whose count is the number
\* of orders resting at the price on both sides and whose quantity is the sum
\* of their remaining quantities.
C6_LevelsMatchQueues ==
    ~crashed =>
        \A p \in (DOMAIN bids_) \cup (DOMAIN asks_) :
            /\ p \in DOMAIN data_
            /\ LevelAt(data_, p).count = Len(QueueAt(bids_, p)) + Len(QueueAt(asks_, p))
            /\ LevelAt(data_, p).quantity
                  = QueueQuantity(QueueAt(bids_, p)) + QueueQuantity(QueueAt(asks_, p))

\* resting quantity of the opposite side at the prices a limit reaches
RECURSIVE LevelsQuantity(_, _)
LevelsQuantity(m, todo) ==
    IF todo = {}
    THEN 0
    ELSE LET p == SetMin(todo) IN QueueQuantity(m[p]) + LevelsQuantity(m, todo \ {p})

ReachableQuantity(bids, asks, side, price) ==
    LevelsQuantity(IF side = "Buy" THEN asks ELSE bids, ReachablePrices(bids, asks, side, price))

\* quantity of the incoming legs of the trades of a list
RECURSIVE IncomingQuantity(_, _, _)
IncomingQuantity(trs, side, id) ==
    IF trs = <<>>
    THEN 0
    ELSE (IF IncomingLeg(Head(trs), side).orderId = id THEN IncomingLeg(Head(trs), side).quantity ELSE 0)
         + IncomingQuantity(Tail(trs), side, id)

C7_Step ==
    (/\ lastOp'.op = "AddOrder"
     /\ lastOp'.orderType = "FillOrKill"
     /\ ReachableQuantity(bids_, asks_, lastOp'.side, lastOp'.price) < lastOp'.quantity)
        => (trades' = <<>> /\ UNCHANGED book)

\* C7 as stated: AddOrder of a FillOrKill order whose quantity exceeds the
\* opposite side's resting quantity at the prices its limit reaches returns no
\* trade and leaves bids, asks, the by-ID map and levels as they were.
C7_FillOrKillRejected == [][C7_Step]_vars

C8_Step ==
    (/\ lastOp'.op = "AddOrder"
     /\ lastOp'.orderType = "FillOrKill"
     /\ ~crashed'
     /\ lastOp'.orderId \notin DOMAIN orders_
     /\ CanFullyFill(bids_, asks_, data_, lastOp'.side, lastOp'.price, lastOp'.quantity))
        => /\ IncomingQuantity(trades', lastOp'.side, lastOp'.orderId) = lastOp'.quantity
           /\ lastOp'.orderId \notin DOMAIN orders_'

\* C8 as stated: when AddOrder admits a FillOrKill order (CanFullyFill, computed
\* from the levels index, returned true) the matching pass fills it completely:
\* the incoming legs of the returned trades add up to its quantity and it does
\* not rest when AddOrder returns.
C8_FillOrKillFilled == [][C8_Step]_vars

\* the limit of an incoming order reaches no price of the opposite side
CannotMatch(bids, asks, side, price) ==
    IF side = "Buy"
    THEN \A p \in DOMAIN asks : price < p
    ELSE \A p \in DOMAIN bids : price > p

C9_Step ==
    (/\ lastOp'.op = "AddOrder"
     /\ lastOp'.orderType = "FillAndKill"
     /\ CannotMatch(bids_, asks_, lastOp'.side, lastOp'.price))
        => /\ ~crashed'
           /\ trades' = <<>>
           /\ ~lastOp'.admitted
           /\ UNCHANGED book

\* C9: AddOrder of a FillAndKill order that cannot match (opposite side empty,
\* or the limit does not reach the best opposite price) returns no trade, does
\* not insert the order and leaves the whole book unchanged.
C9_FillAndKillRejected == [][C9_Step]_vars

\* a FillAndKill order was refused while the opposite side holds orders its
\* limit does not reach, and others rest on its own side at its price
C9_Witness ==
    /\ Returned
    /\ lastOp.op = "AddOrder"
    /\ lastOp.orderType = "FillAndKill"
    /\ ~lastOp.admitted
    /\ lastOp.orderId \notin DOMAIN orders_
    /\ DOMAIN (IF lastOp.side = "Buy" THEN asks_ ELSE bids_) # {}
    /\ CannotMatch(bids_, asks_, lastOp.side, lastOp.price)
    /\ lastOp.price \in DOMAIN SideMap(bids_, asks_, lastOp.side)

C10_NoneResting ==
    ~crashed => \A o \in Resting : o.orderType # "FillAndKill"

\* when the matching loop of an AddOrder of a FillAndKill order stops with the
\* order still in the book, the order is the head of the best level of its side
C10_Step ==
    (lastOp'.op = "AddOrder" /\ lastOp'.orderType = "FillAndKill" /\ lastOp'.admitted)
        => LET order == Order("FillAndKill", lastOp'.orderId, lastOp'.side, lastOp'.price,
                              lastOp'.quantity)
               st == MatchLoop(InsertOrder(Current, order))
               m == SideMap(st.bids, st.asks, order.side)
           IN  order.orderId \in DOMAIN st.orders
                  => /\ DOMAIN m # {}
                     /\ Head(m[IF order.side = "Buy" THEN BestBid(m) ELSE BestAsk(m)]).orderId
                           = order.orderId

\* C10: after every public operation returns, no FillAndKill order rests in
\* the book: the unfilled remainder of an admitted FillAndKill order is the
\* head of the best level of its side when the matching loop stops, and the
\* sweep after the loop removes it.
C10_NoFillAndKillResting == [](C10_NoneResting) /\ [][C10_Step]_vars

\* a FillAndKill order was admitted, traded less than its quantity, and its
\* remainder does not rest
C10_Witness ==
    /\ Returned
    /\ lastOp.op = "AddOrder"
    /\ lastOp.orderType = "FillAndKill"
    /\ lastOp.admitted
    /\ trades # <<>>
    /\ TradedQuantity(trades, lastOp.orderId) < lastOp.quantity
    /\ lastOp.orderId \notin DOMAIN orders_

\* total remaining quantity resting on the side opposite to an incoming order
OppositeQuantity(bids, asks, side) ==
    LET opposite == IF side = "Buy" THEN asks ELSE bids
    IN  LevelsQuantity(opposite, DOMAIN opposite)

C11_Step ==
    (/\ lastOp'.op = "AddOrder"
     /\ lastOp'.orderType = "Market"
     /\ lastOp'.orderId \notin DOMAIN orders_)
        => IF lastOp'.quantity > OppositeQuantity(bids_, asks_, lastOp'.side)
           THEN /\ ~crashed'
                /\ trades' = <<>>
                /\ ~lastOp'.admitted
                /\ UNCHANGED book
           ELSE ~crashed' =>
                LET boundary == MarketPrice(bids_, asks_, lastOp'.side, lastOp'.quantity)
                    n == Len(trades')
                IN  /\ IncomingQuantity(trades', lastOp'.side, lastOp'.orderId) = lastOp'.quantity
                    /\ lastOp'.orderId \notin DOMAIN orders_'
                    /\ \A i \in 1 .. n :
                          /\ IncomingLeg(trades'[i], lastOp'.side).orderId = lastOp'.orderId
                          /\ IncomingLeg(trades'[i], lastOp'.side).price = boundary
                    /\ n > 0 => RestingLeg(trades'[n], lastOp'.side).price = boundary

C11_NoneResting ==
    ~crashed => \A o \in Resting : o.orderType # "Market" /\ o.price # InvalidPrice

C11_WitnessRejected ==
    /\ Returned
    /\ lastOp.op = "AddOrder"
    /\ lastOp.orderType = "Market"
    /\ ~lastOp.admitted
    /\ DOMAIN (IF lastOp.side = "Buy" THEN asks_ ELSE bids_) # {}
    /\ lastOp.quantity > OppositeQuantity(bids_, asks_, lastOp.side)

C12_Step ==
    (lastOp'.op = "AddOrder" /\ lastOp'.orderId \in DOMAIN orders_)
        => /\ ~crashed'
           /\ trades' = <<>>
           /\ ~lastOp'.admitted
           /\ UNCHANGED book

\* C12: AddOrder with an id that is in the by-ID map returns no trade and
\* leaves bids, asks, the by-ID map and levels unchanged, whatever the type,
\* side, price and quantity of the new order.
C12_DuplicateRejected == [][C12_Step]_vars

\* an order was refused for its id although its limit crosses the opposite side
C12_Witness ==
    /\ Returned
    /\ lastOp.op = "AddOrder"
    /\ lastOp.orderId \in DOMAIN orders_
    /\ ~lastOp.admitted
    /\ lastOp.orderType \in {"GoodTillCancel", "FillAndKill", "FillOrKill", "GoodForDay"}
    /\ lastOp.quantity > 0
    /\ CanMatch(bids_, asks_, lastOp.side, lastOp.price)

\* the four containers of a record of the members
BookOf(st) == <<st.bids, st.asks, st.orders, st.data>>

C13_Step ==
    (lastOp'.op \in {"CancelOrder", "ModifyOrder"} /\ lastOp'.orderId \notin DOMAIN orders_)
        => /\ ~crashed'
           /\ trades' = <<>>
           /\ ~lastOp'.admitted
           /\ UNCHANGED book

\* cancel(id); cancel(id) against cancel(id), from the current book, for every id
C13_Idempotent ==
    ~crashed =>
        \A id \in OrderIds :
            LET once == CancelOrder(Current, id)
            IN  /\ id \notin DOMAIN once.orders
                /\ BookOf(CancelOrder(once, id)) = BookOf(once)

\* C13: CancelOrder and ModifyOrder naming an id that is not in the by-ID map
\* leave bids, asks, the by-ID map and levels unchanged and return no trade;
\* from every reachable book and for every id, a second CancelOrder of the id
\* leaves the state the first one left.
C13_AbsentIdNoOp == [](C13_Idempotent) /\ [][C13_Step]_vars

\* a modification naming an absent id returned with the book holding orders its
\* limit crosses
C13_Witness ==
    /\ Returned
    /\ lastOp.op = "ModifyOrder"
    /\ lastOp.orderId \notin DOMAIN orders_
    /\ orders_ # EmptyMap
    /\ lastOp.quantity > 0
    /\ CanMatch(bids_, asks_, lastOp.side, lastOp.price)

\* a CancelOrder returned for an id that once rested, with other orders resting
C13_WitnessCancel ==
    /\ Returned
    /\ lastOp.op = "CancelOrder"
    /\ admittedAt[lastOp.orderId] > 0
    /\ lastOp.orderId \notin DOMAIN orders_
    /\ orders_ # EmptyMap

C14_Step ==
    (lastOp'.op = "ModifyOrder" /\ lastOp'.orderId \in DOMAIN orders_ /\ ~crashed')
        => LET id == lastOp'.orderId
               type == OrderOf(bids_, asks_, orders_[id], id).orderType
               cancelled == CancelOrder(Current, id)
               added == AddOrder(BookState(cancelled.bids, cancelled.asks, cancelled.orders,
                                           cancelled.data),
                                 Order(type, id, lastOp'.side, lastOp'.price, lastOp'.quantity))
           IN  /\ book' = BookOf(added)
               /\ trades' = added.trades
               /\ lastOp'.admitted = (id \in added.admitted)

\* C14: for every reachable book and every modification naming a resting id,
\* ModifyOrder ends in the book and returns the trades of CancelOrder of the id
\* followed by AddOrder of a new order with the modification's side, price and
\* quantity and the type the resting order had.
C14_ModifyIsCancelThenAdd == [][C14_Step]_vars

\* a GoodForDay order was modified, traded and rests again as GoodForDay
C14_Witness ==
    /\ Returned
    /\ lastOp.op = "ModifyOrder"
    /\ lastOp.admitted
    /\ trades # <<>>
    /\ \E o \in Resting : o.orderId = lastOp.orderId /\ o.orderType = "GoodForDay"

C16_Step ==
    (/\ lastOp'.op = "ModifyOrder"
     /\ lastOp'.orderId \in DOMAIN orders_
     /\ ~crashed'
     /\ lastOp'.orderId \in DOMAIN orders_')
        => LET id == lastOp'.orderId
               entry == orders_'[id]
               before == QueueAt(SideMap(bids_, asks_, entry.side), entry.price)
               after == QueueAt(SideMap(bids_', asks_', entry.side), entry.price)
           IN  /\ entry = [side |-> lastOp'.side, price |-> lastOp'.price]
               /\ after # <<>>
               /\ after[Len(after)].orderId = id
               /\ \A i \in 1 .. (Len(after) - 1) :
                     /\ after[i].orderId # id
                     /\ \E j \in 1 .. Len(before) : before[j].orderId = after[i].orderId

\* C16: after ModifyOrder on a resting order, an order that still rests is the
\* last element of the queue at the modification's side and price, behind every
\* order that rested there before the call, also when side and price are
\* unchanged and the quantity does not grow.
C16_ModifyForfeitsPriority == [][C16_Step]_vars

\* a modified order rests behind an order of its queue that carries a later id:
\* it was admitted first and stands last
C16_Witness ==
    /\ Returned
    /\ lastOp.op = "ModifyOrder"
    /\ lastOp.orderId \in DOMAIN orders_
    /\ LET q == QueueAt(SideMap(bids_, asks_, lastOp.side), lastOp.price)
       IN  /\ Len(q) >= 2
           /\ q[Len(q)].orderId = lastOp.orderId
           /\ q[1].orderId > lastOp.orderId
           /\ q[Len(q)].remainingQuantity = 1

\* id, side and limit price of the orders a call can match: the orders resting
\* before the call (without the one a modification replaces) and the incoming
\* order at the price it is inserted with
C17_Matchable ==
    LET incomingPrice == IF lastOp'.orderType = "Market"
                         THEN MarketPrice(bids_, asks_, lastOp'.side, lastOp'.quantity)
                         ELSE lastOp'.price
    IN  {<<o.orderId, o.side, o.price>> :
            o \in {r \in Resting : lastOp'.op = "ModifyOrder" => r.orderId # lastOp'.orderId}}
        \cup {<<lastOp'.orderId, lastOp'.side, incomingPrice>>}

C17_Step ==
    (lastOp'.op \in {"AddOrder", "ModifyOrder"} /\ ~crashed')
        => \A i \in 1 .. Len(trades') :
              LET bid == trades'[i].bidTrade
                  ask == trades'[i].askTrade
                  incoming == IncomingLeg(trades'[i], lastOp'.side)
                  resting == RestingLeg(trades'[i], lastOp'.side)
              IN  /\ <<bid.orderId, "Buy", bid.price>> \in C17_Matchable
                  /\ <<ask.orderId, "Sell", ask.price>> \in C17_Matchable
                  /\ bid.price >= ask.price
                  /\ incoming.orderId = lastOp'.orderId
                  /\ (bid.price # ask.price)
                        <=> (IF lastOp'.side = "Buy"
                             THEN incoming.price > resting.price
                             ELSE incoming.price < resting.price)

\* C17: in every trade a call returns, the bid leg carries the id and limit
\* price of the bid order and the ask leg those of the ask order, so the bid
\* leg's price is at least the ask leg's price, and the two differ exactly when
\* the incoming order's limit lies beyond the resting order's price.
C17_LegsCarryOwnPrice == [][C17_Step]_vars

\* a trade whose two legs carry different prices
C17_Witness ==
    /\ Returned
    /\ \E i \in 1 .. Len(trades) :
          /\ trades[i].bidTrade.price > trades[i].askTrade.price
          /\ trades[i].bidTrade.quantity > 0

C18_Step ==
    (lastOp'.op = "CancelOrder" /\ lastOp'.orderId \in DOMAIN orders_ /\ ~crashed')
        => LET id == lastOp'.orderId
               entry == orders_[id]
               before == SideMap(bids_, asks_, entry.side)
               after == SideMap(bids_', asks_', entry.side)
               q == before[entry.price]
           IN  /\ trades' = <<>>
               /\ ~lastOp'.admitted
               /\ DOMAIN orders_' = (DOMAIN orders_) \ {id}
               /\ \A x \in DOMAIN orders_' : orders_'[x] = orders_[x]
               /\ IF entry.side = "Buy" THEN asks_' = asks_ ELSE bids_' = bids_
               /\ \A p \in (DOMAIN before) \ {entry.price} :
                     p \in DOMAIN after /\ after[p] = before[p]
               /\ DOMAIN after \subseteq DOMAIN before
               /\ \E k \in 1 .. Len(q) :
                     /\ q[k].orderId = id
                     /\ QueueAt(after, entry.price)
                           = SubSeq(q, 1, k - 1) \o SubSeq(q, k + 1, Len(q))
               /\ (entry.price \in DOMAIN after) <=> (Len(q) > 1)

\* C18: CancelOrder on a resting id removes that order and nothing else: the
\* id leaves the by-ID map, the order leaves its queue, its price level is
\* dropped exactly when the queue became empty, every other order keeps its
\* side, price, remaining quantity and place in its queue, and no trade is
\* produced.
C18_CancelFrame == [][C18_Step]_vars

\* a CancelOrder returned for an id that was admitted before an order that
\* still rests
C18_Witness ==
    /\ Returned
    /\ lastOp.op = "CancelOrder"
    /\ admittedAt[lastOp.orderId] > 0
    /\ lastOp.orderId \notin DOMAIN orders_
    /\ trades = <<>>
    /\ \E o \in Resting :
          /\ o.orderId > lastOp.orderId
          /\ o.remainingQuantity > 0
          /\ filled[o.orderId] = 0

(***************************************************************************)
(* The two threads of src/OrderBook.h: the foreground thread calls the     *)
(* public operations, each under ordersMutex_ for the whole call (section  *)
(* 5); the pruner thread started by the constructor runs                   *)
(* PruneGoodForDayOrders (section 4.6).  A section of code that holds the  *)
(* mutex from its first to its last statement is one step.                 *)
(***************************************************************************)
\* the test of the two blocks after the matching loop: the head of the best
\* level of a side is a FillAndKill order
HeadIsFillAndKill(st, side) ==
    LET m == SideMap(st.bids, st.asks, side)
    IN  /\ DOMAIN m # {}
        /\ Head(m[IF side = "Buy" THEN BestBid(m) ELSE BestAsk(m)]).orderType = "FillAndKill"

\* AddOrder passes its early returns
Admitted(st, order) ==
    ~(Rejected(st, order) \/ (order.orderId \notin DOMAIN st.orders /\ RejectedUnfilled(st, order)))

\* AddOrder up to the end of the matching loop
AddOrderToSweep(st, order) == MatchLoop(InsertOrder(st, Repriced(st, order)))

\* AddOrder reaches `CancelOrder(order->GetOrderId())` in MatchOrders
AddOrderCallsCancelOrder(st, order) ==
    /\ Admitted(st, order)
    /\ \/ HeadIsFillAndKill(AddOrderToSweep(st, order), "Buy")
       \/ HeadIsFillAndKill(AddOrderToSweep(st, order), "Sell")

\* a public operation may start: the foreground thread is between two calls
\* and lock() on the mutex succeeds
MayLock ==
    /\ ~crashed
    /\ foreground = "idle"
    /\ ordersMutex_ = "free"

\* the thread calls the public CancelOrder while it owns the mutex: lock() on a
\* std::mutex the caller owns is undefined; the thread waits for itself for
\* ever with the members as they are at the call, or the process is ended
Relock(st, op) ==
    \/ /\ foreground' = "locking"
       /\ ordersMutex_' = "foreground"
       /\ bids_' = st.bids
       /\ asks_' = st.asks
       /\ orders_' = st.orders
       /\ data_' = st.data
       /\ lastOp' = op
       /\ trades' = <<>>
       /\ UNCHANGED <<crashed, filled, filledNow, admittedAt>>
    \/ /\ Abort(op)
       /\ UNCHANGED <<foreground, ordersMutex_>>

LockedAddOrder(types, quantities, maxOps) ==
    /\ MayLock
    /\ opCount < maxOps
    /\ \E id \in (DOMAIN orders_) \cup {nextId} :
       \E order \in OrderInputs(types, quantities, id) :
          LET op == [op |-> "AddOrder", orderType |-> order.orderType, orderId |-> id,
                     side |-> order.side, price |-> order.price,
                     quantity |-> order.initialQuantity, admitted |-> FALSE]
          IN  /\ IF AddOrderCallsCancelOrder(Current, order)
                 THEN Relock(AddOrderToSweep(Current, order), op)
                 ELSE /\ Outcome(AddOrder(Current, order), op)
                      /\ UNCHANGED <<foreground, ordersMutex_>>
              /\ nextId' = IF id = nextId THEN nextId + 1 ELSE nextId
    /\ opCount' = opCount + 1
    /\ UNCHANGED <<shutdown_, ordersPruneThread_, orderIds, closeIds>>

LockedCancelOrder(maxOps) ==
    /\ MayLock
    /\ CallCancelOrder(maxOps)
    /\ UNCHANGED threads

\* ModifyOrder: an absent id returns; a resting id reaches the call of the
\* public CancelOrder
LockedModifyOrder(quantities, maxOps) ==
    /\ MayLock
    /\ opCount < maxOps
    /\ \E id \in 1 .. nextId, s \in Sides, p \in Prices, q \in quantities :
          LET op == [op |-> "ModifyOrder", orderType |-> "None", orderId |-> id,
                     side |-> s, price |-> p, quantity |-> q, admitted |-> FALSE]
          IN  IF id \in DOMAIN orders_
              THEN Relock(Current, op)
              ELSE /\ Return(ModifyOrder(Current, OrderModify(id, s, p, q)), op)
                   /\ UNCHANGED <<foreground, ordersMutex_>>
    /\ opCount' = opCount + 1
    /\ UNCHANGED <<nextId, shutdown_, ordersPruneThread_, orderIds, closeIds>>

\* ~Orderbook: set the flag, notify the condition variable, join the pruner.
\* The notification wakes the pruner only if it is waiting.
Destructor ==
    /\ ~crashed
    /\ foreground = "idle"
    /\ shutdown_' = TRUE
    /\ ordersPruneThread_' = IF ordersPruneThread_ = "waiting"
                             THEN "notified"
                             ELSE ordersPruneThread_
    /\ foreground' = "joining"
    /\ lastOp' = [NoOp EXCEPT !.op = "Destructor"]
    /\ UNCHANGED <<bids_, asks_, orders_, data_, crashed, trades, filled, filledNow,
                   admittedAt, nextId, opCount, ordersMutex_, orderIds, closeIds>>

\* ordersPruneThread_.join() returns
Join ==
    /\ ~crashed
    /\ foreground = "joining"
    /\ ordersPruneThread_ = "exited"
    /\ foreground' = "destroyed"
    /\ UNCHANGED <<bids_, asks_, orders_, data_, crashed, trades, lastOp, filled, filledNow,
                   admittedAt, nextId, opCount, ordersMutex_, shutdown_, ordersPruneThread_,
                   orderIds, closeIds>>

\* mutant: the pruner collects the id of every resting order
AllIds(bids, asks) ==
    {o.orderId : o \in RestingOn(bids) \cup RestingOn(asks)}

\* the ids of the resting orders whose type is GoodForDay
GoodForDayIds(bids, asks) ==
    {o.orderId : o \in {r \in RestingOn(bids) \cup RestingOn(asks) : r.orderType = "GoodForDay"}}

\* CancelOrderInternal: the cancel of section 4.3, called with the mutex held
CancelOrderInternal(st, orderId) == [CancelOrder(st, orderId) EXCEPT !.uaf = FALSE]

\* CancelOrders: under the mutex, CancelOrderInternal for each id of the list
RECURSIVE CancelOrders(_, _)
CancelOrders(st, ids) ==
    IF ids = {}
    THEN st
    ELSE CancelOrders(CancelOrderInternal(st, SetMin(ids)), ids \ {SetMin(ids)})

\* PruneGoodForDayOrders: the next session close is computed and the thread
\* takes the mutex to wait on the condition variable, which releases it
PrunerWait ==
    /\ ~crashed
    /\ ordersPruneThread_ = "starting"
    /\ ordersMutex_ = "free"
    /\ ordersPruneThread_' = "waiting"
    /\ UNCHANGED <<bids_, asks_, orders_, data_, crashed, trades, lastOp, filled, filledNow,
                   admittedAt, nextId, opCount, ordersMutex_, shutdown_, foreground,
                   orderIds, closeIds>>

\* the deadline of the timed wait passes: the session closes
PrunerTimeout ==
    /\ ~crashed
    /\ ordersPruneThread_ = "waiting"
    /\ ordersPruneThread_' = "timedout"
    /\ closeIds' = GoodForDayIds(bids_, asks_)
    /\ UNCHANGED <<bids_, asks_, orders_, data_, crashed, trades, lastOp, filled, filledNow,
                   admittedAt, nextId, opCount, ordersMutex_, shutdown_, foreground, orderIds>>

\* mutant: the flag is looked at only when the wait was notified
PrunerExitNotified ==
    /\ ~crashed
    /\ ordersPruneThread_ = "notified"
    /\ ordersMutex_ = "free"
    /\ shutdown_
    /\ ordersPruneThread_' = "exited"
    /\ UNCHANGED <<bids_, asks_, orders_, data_, crashed, trades, lastOp, filled, filledNow,
                   admittedAt, nextId, opCount, ordersMutex_, shutdown_, foreground,
                   orderIds, closeIds>>

\* the wait returned and the thread holds the mutex again: it observes the
\* flag set and exits
PrunerExit ==
    /\ ~crashed
    /\ ordersPruneThread_ \in {"notified", "timedout"}
    /\ ordersMutex_ = "free"
    /\ shutdown_
    /\ ordersPruneThread_' = "exited"
    /\ UNCHANGED <<bids_, asks_, orders_, data_, crashed, trades, lastOp, filled, filledNow,
                   admittedAt, nextId, opCount, ordersMutex_, shutdown_, foreground,
                   orderIds, closeIds>>

\* the wait timed out and the flag is not set: under the mutex, the ids of all
\* GoodForDay orders go into the local list
PrunerCollect ==
    /\ ~crashed
    /\ ordersPruneThread_ = "timedout"
    /\ ordersMutex_ = "free"
    /\ ~shutdown_
    /\ orderIds' = GoodForDayIds(bids_, asks_)
    /\ ordersPruneThread_' = "collected"
    /\ UNCHANGED <<bids_, asks_, orders_, data_, crashed, trades, lastOp, filled, filledNow,
                   admittedAt, nextId, opCount, ordersMutex_, shutdown_, foreground, closeIds>>

\* CancelOrders(orderIds) takes the mutex again and cancels the collected ids
PrunerCancelOrders ==
    /\ ~crashed
    /\ ordersPruneThread_ = "collected"
    /\ ordersMutex_ = "free"
    /\ LET st == CancelOrders(Current, orderIds)
       IN  /\ bids_' = st.bids
           /\ asks_' = st.asks
           /\ orders_' = st.orders
           /\ data_' = st.data
    /\ lastOp' = [NoOp EXCEPT !.op = "CancelOrders"]
    /\ trades' = <<>>
    /\ orderIds' = {}
    /\ ordersPruneThread_' = "starting"
    /\ UNCHANGED <<crashed, filled, filledNow, admittedAt, nextId, opCount, ordersMutex_,
                   shutdown_, foreground, closeIds>>

\* the steps of the pruner thread
Pruner ==
    \/ PrunerWait
    \/ PrunerTimeout
    \/ PrunerExit
    \/ PrunerCollect
    \/ PrunerCancelOrders

\* the foreground thread and the pruner, interleaved
NextPruner ==
    \/ LockedAddOrder({"GoodTillCancel", "GoodForDay", "FillAndKill"}, SomeQuantities, MaxOpsPruner)
    \/ LockedCancelOrder(MaxOpsPruner)
    \/ LockedModifyOrder(SomeQuantities, MaxOpsPruner)
    \/ Destructor
    \/ Join
    \/ PrunerWait
    \/ PrunerTimeout
    \/ PrunerExit
    \/ PrunerCollect
    \/ PrunerCancelOrders

SpecPruner == Init /\ [][NextPruner]_vars

\* shorter runs of the foreground thread, for the properties of shutdown
NextShutdown ==
    \/ LockedAddOrder({"GoodTillCancel", "GoodForDay", "FillAndKill"}, SomeQuantities, MaxOpsShutdown)
    \/ LockedCancelOrder(MaxOpsShutdown)
    \/ LockedModifyOrder(SomeQuantities, MaxOpsShutdown)
    \/ Destructor
    \/ Join
    \/ PrunerWait
    \/ PrunerTimeout
    \/ PrunerExit
    \/ PrunerCollect
    \/ PrunerCancelOrders

\* the pruner thread is scheduled, its timed wait ends at its deadline, and
\* join returns once the thread has exited
SpecShutdown == Init /\ [][NextShutdown]_vars /\ WF_vars(Pruner) /\ WF_vars(Join)

\* C20 as stated: no public operation tries to acquire the mutex while its
\* thread owns it; an AddOrder whose matching pass sweeps a FillAndKill
\* remainder returns.
C20_NoSelfDeadlock ==
    ~(foreground = "locking" /\ ordersMutex_ = "foreground")

\* C20, the case the claim names: the sweep of a FillAndKill remainder after
\* the matching loop of AddOrder does not wait for the mutex
C20_SweepReturns ==
    ~(/\ foreground = "locking"
      /\ ordersMutex_ = "foreground"
      /\ lastOp.op = "AddOrder"
      /\ lastOp.orderType = "FillAndKill"
      /\ lastOp.orderId \in DOMAIN orders_)

\* the orders of a queue that are still resting, in the queue's order
C15_Kept(q, kept) == SelectSeq(q, LAMBDA o : o \in kept)

C15_Step ==
    (ordersPruneThread_ = "collected" /\ ordersPruneThread_' = "starting" /\ ~crashed')
        => /\ Resting' \subseteq Resting
           /\ \A o \in Resting \ Resting' : o.orderType = "GoodForDay"
           /\ \A id \in closeIds : id \notin DOMAIN orders_'
           /\ \A o \in Resting' : o.orderId \notin orderIds
           /\ DOMAIN orders_' = {o.orderId : o \in Resting'}
           /\ \A p \in Prices :
                 /\ QueueAt(bids_', p) = C15_Kept(QueueAt(bids_, p), Resting')
                 /\ QueueAt(asks_', p) = C15_Kept(QueueAt(asks_, p), Resting')

\* the list the pruner holds between its two phases names only ids that were
\* resting as GoodForDay when it collected: an id of the list that still rests
\* is a GoodForDay order
C15_Collected ==
    (~crashed /\ ordersPruneThread_ = "collected" /\ foreground # "locking")
        => \A o \in Resting : o.orderId \in orderIds => o.orderType = "GoodForDay"

C19_Step ==
    (ordersPruneThread_' = "exited") => UNCHANGED book

\* C19: once shutdown is signaled the pruner thread eventually exits and the
\* destructor's join returns, whether the signal finds the pruner before its
\* wait, in its wait or between its two phases; after it observed the flag the
\* pruner cancels nothing.
C19_ShutdownJoins ==
    /\ shutdown_ ~> (ordersPruneThread_ = "exited" /\ foreground = "destroyed")
    /\ [][C19_Step]_vars

\* join returned after a cancel phase that ran when the flag was already set:
\* the signal found the pruner between its two phases
C19_Witness ==
    /\ foreground = "destroyed"
    /\ ordersPruneThread_ = "exited"
    /\ shutdown_
    /\ lastOp.op = "CancelOrders"

\* join returned and the signal found the pruner before its wait or in it
C19_WitnessWaiting ==
    /\ foreground = "destroyed"
    /\ ordersPruneThread_ = "exited"
    /\ lastOp.op = "Destructor"
    /\ orders_ # EmptyMap

\* remaining quantity, when the matching of a call starts, of the order that
\* carries an id: the incoming order's quantity, or what a resting order has left
C21_RemainingAtStart(id) ==
    IF id = lastOp'.orderId
    THEN lastOp'.quantity
    ELSE (CHOOSE o \in Resting : o.orderId = id).remainingQuantity

\* number of orders in the book when the matching of a call starts: the orders
\* resting before the call, the incoming order, less the order a modification
\* cancels first
C21_OrdersAtStart ==
    Size(orders_) + 1 - (IF lastOp'.op = "ModifyOrder" THEN 1 ELSE 0)

\* a leg of the i-th trade is filled by it and gone: the trades up to the i-th
\* add up to what its order had left, no later trade names it, and its id is
\* not in the by-ID map when the call returns
C21_FilledBy(leg, i) ==
    /\ leg.orderId = lastOp'.orderId \/ \E o \in Resting : o.orderId = leg.orderId
    /\ TradedQuantity(SubSeq(trades', 1, i), leg.orderId) = C21_RemainingAtStart(leg.orderId)
    /\ \A j \in (i + 1) .. Len(trades') :
          /\ trades'[j].bidTrade.orderId # leg.orderId
          /\ trades'[j].askTrade.orderId # leg.orderId
    /\ leg.orderId \notin DOMAIN orders_'

C21_Step ==
    (lastOp'.op \in {"AddOrder", "ModifyOrder"} /\ ~crashed' /\ trades' # <<>>)
        => /\ \A i \in 1 .. Len(trades') :
                 \/ C21_FilledBy(trades'[i].bidTrade, i)
                 \/ C21_FilledBy(trades'[i].askTrade, i)
           /\ Len(trades') <= C21_OrdersAtStart

\* C21: every trade the matching loop emits fills one of its two legs
\* completely and that order leaves the book, so the loop ends and one call
\* returns at most as many trades as there were orders in the book when its
\* matching started.
C21_EachTradeFillsALeg == [][C21_Step]_vars

\* an AddOrder returned two trades of positive quantity and emptied the book:
\* three orders when matching started, each trade removed one or two
C21_Witness ==
    /\ Returned
    /\ lastOp.op = "AddOrder"
    /\ Len(trades) = 2
    /\ trades[1].bidTrade.quantity > 0
    /\ trades[2].bidTrade.quantity > 0
    /\ orders_ = EmptyMap

\* every price key of a side maps to a non-empty queue
C22_NoEmptyLevel(bids, asks) ==
    /\ \A p \in DOMAIN bids : bids[p] # <<>>
    /\ \A p \in DOMAIN asks : asks[p] # <<>>

\* when the matching loop of an admitted AddOrder has ended, the levels the
\* sweep looks at are non-empty
C22_Step ==
    (lastOp'.op = "AddOrder" /\ lastOp'.admitted)
        => LET order == Order(lastOp'.orderType, lastOp'.orderId, lastOp'.side, lastOp'.price,
                              lastOp'.quantity)
               st == AddOrderToSweep(Current, order)
           IN  C22_NoEmptyLevel(st.bids, st.asks)

\* C22: after every public operation returns, every price key of bids and of
\* asks maps to a non-empty queue: no empty level survives a full fill or a
\* cancel, and the sweep after the matching loop finds a head at the best level
\* of each side.
C22_NoEmptyPriceLevel ==
    /\ [](~crashed => C22_NoEmptyLevel(bids_, asks_))
    /\ [][C22_Step]_vars

\* a trade filled the only order of a level: the level is gone and another
\* level of that side remains
C22_Witness ==
    /\ Returned
    /\ lastOp.op = "AddOrder"
    /\ trades # <<>>
    /\ LET resting == RestingLeg(trades[1], lastOp.side)
           opposite == IF lastOp.side = "Buy" THEN asks_ ELSE bids_
       IN  /\ resting.quantity > 0
           /\ resting.orderId \notin DOMAIN orders_
           /\ resting.price \notin DOMAIN opposite
           /\ DOMAIN opposite # {}

\* a cancel emptied a level: the level is gone and the book holds other orders
C22_WitnessCancel ==
    /\ Returned
    /\ lastOp.op = "CancelOrder"
    /\ admittedAt[lastOp.orderId] > 0
    /\ lastOp.orderId \notin DOMAIN orders_
    /\ filled[lastOp.orderId] = 0
    /\ Cardinality((DOMAIN bids_) \cup (DOMAIN asks_)) = 1
    /\ Size(orders_) = 1

\* the quantity of each trade is the quantity the loop handed to Fill on both
\* legs: with the trades before it, it stays within what each leg's order had
\* left when matching started
C23_Step ==
    (lastOp'.op \in {"AddOrder", "ModifyOrder"} /\ ~crashed')
        => \A i \in 1 .. Len(trades') :
              /\ TradedQuantity(SubSeq(trades', 1, i), trades'[i].bidTrade.orderId)
                    <= C21_RemainingAtStart(trades'[i].bidTrade.orderId)
              /\ TradedQuantity(SubSeq(trades', 1, i), trades'[i].askTrade.orderId)
                    <= C21_RemainingAtStart(trades'[i].askTrade.orderId)

\* Order::Fill on every resting order and every quantity: a quantity above the
\* remaining quantity leaves the order as it is, any other is subtracted
C23_FillGuard ==
    ~crashed =>
        \A o \in Resting : \A q \in 0 .. (MaxQuantity + 1) :
            IF q > o.remainingQuantity
            THEN Fill(o, q) = o
            ELSE /\ Fill(o, q).remainingQuantity = o.remainingQuantity - q
                 /\ Fill(o, q).initialQuantity = o.initialQuantity

\* C23: in no run of AddOrder, CancelOrder and ModifyOrder does the matching
\* loop hand Fill a quantity above the remaining quantity of the order, so the
\* book never raises Fill's logic_error; and a Fill that would overfill leaves
\* the remaining quantity unchanged.
C23_FillNeverOverfills == [](C23_FillGuard) /\ [][C23_Step]_vars

\* a trade filled a resting order in part: the order rests with less than it
\* was admitted with, and a Fill of its admitted quantity would now overfill
C23_Witness ==
    /\ Returned
    /\ trades # <<>>
    /\ \E o \in Resting :
          /\ 0 < o.remainingQuantity
          /\ o.remainingQuantity < o.initialQuantity
          /\ TradedQuantity(trades, o.orderId) > 0
          /\ Fill(o, o.initialQuantity) = o

====
